---- MODULE Spec2Model ----
(***************************************************************************)
(* Model of crates/source_analyzer/src/structs.rs: the StructHierarchy     *)
(* tree, its insert operation, path_to_insertion_rules,                    *)
(* unwrap_option_data_type and Structs::try_from_crates_directory.         *)
(***************************************************************************)
EXTENDS Integers, Sequences, FiniteSets, TLC

(***************************************************************************)
(* Bounds of the model.                                                    *)
(***************************************************************************)
\* longest path (number of segments) fed to path_to_insertion_rules
MaxPathLen == 2
\* number of (path, data type) pairs merged into one StructHierarchy
MaxBatch == 3

\* number of field declarations one construction run processes
MaxFields == 2
\* number of cycler modules of modules.cycler_modules_to_modules
MaxCyclers == 2

\* segment names
Names == {"a", "b"}

(***************************************************************************)
(* syn::Type values.  A type is Type::Path with a list of path segments,   *)
(* each with an identifier and generic arguments, or another variant       *)
(* (here Type::Reference).                                                 *)
(***************************************************************************)
NoArguments == [kind |-> "None"]

AngleBracketed(args) == [kind |-> "AngleBracketed", args |-> args]

TypeArgument(ty) == [kind |-> "Type", ty |-> ty]

LifetimeArgument == [kind |-> "Lifetime"]

TypePath(segments) == [variant |-> "Path", segments |-> segments]

PlainType(ident) == TypePath(<<[ident |-> ident, arguments |-> NoArguments]>>)

TypeT == PlainType("T")

TypeU == PlainType("U")

\* Option<args>, as written in a declaration
OptionOf(args) ==
    TypePath(<<[ident |-> "Option", arguments |-> AngleBracketed(args)]>>)

\* Type::Reference, one of the variants that are not Type::Path
TypeRefT == [variant |-> "Reference", elem |-> TypeT]

\* the leaf types of the merge engine's batches
LeafTypes == {TypeT, TypeU}

\* the data types of the declarations of a construction run
MainOutputTypes == {TypeT, TypeU}

AdditionalOutputTypes == {TypeT, TypeU}

PersistentStateTypes == {TypeT, TypeU, OptionOf(<<TypeArgument(TypeT)>>)}

ParameterTypes ==
    {TypeT, TypeU, TypeRefT,
     OptionOf(<<TypeArgument(TypeT)>>),
     OptionOf(<<TypeArgument(TypeT), TypeArgument(TypeU)>>),
     OptionOf(<<LifetimeArgument>>),
     TypePath(<<[ident |-> "Option", arguments |-> NoArguments]>>),
     TypePath(<<[ident |-> "option", arguments |-> NoArguments],
                [ident |-> "Option",
                 arguments |-> AngleBracketed(<<TypeArgument(TypeT)>>)]>>)}

(***************************************************************************)
(* PathSegment { name, is_optional } (is_variable is false for every       *)
(* segment that reaches path_to_insertion_rules) and paths.                *)
(***************************************************************************)
PathSegments == [name : Names, is_optional : BOOLEAN]

SeqsUpTo(S, n) == UNION {[1..k -> S] : k \in 0..n}

Paths == SeqsUpTo(PathSegments, MaxPathLen)

(***************************************************************************)
(* enum InsertionRule                                                      *)
(***************************************************************************)
BeginStruct == [rule |-> "BeginStruct"]

BeginOptional == [rule |-> "BeginOptional"]

InsertField(name) == [rule |-> "InsertField", name |-> name]

AppendDataType(data_type) == [rule |-> "AppendDataType", data_type |-> data_type]

(***************************************************************************)
(* enum StructHierarchy                                                    *)
(***************************************************************************)
NoFields == [n \in {} |-> 0]

Struct(fields) == [kind |-> "Struct", fields |-> fields]

Optional(child) == [kind |-> "Optional", child |-> child]

Field(data_type) == [kind |-> "Field", data_type |-> data_type]

\* impl Default for StructHierarchy
Default == Struct(NoFields)

\* BTreeMap::insert / the write through the entry of BTreeMap::entry
Put(fields, name, node) ==
    [n \in (DOMAIN fields) \cup {name} |-> IF n = name THEN node ELSE fields[n]]

\* mutant of EntryOrDefault: the entry is reset on every visit
EntryAlwaysDefault(fields, name) == Default

\* fields.entry(name).or_default()
EntryOrDefault(fields, name) ==
    IF name \in DOMAIN fields THEN fields[name] ELSE Default

RECURSIVE FlattenRules(_)
FlattenRules(seqs) ==
    IF seqs = <<>> THEN <<>> ELSE Head(seqs) \o FlattenRules(Tail(seqs))

\* mutant of SegmentRules: BeginOptional emitted before the field
SegmentRulesOptionalFirst(segment) ==
    IF segment.is_optional
    THEN <<BeginStruct, BeginOptional, InsertField(segment.name)>>
    ELSE <<BeginStruct, InsertField(segment.name)>>

\* the closure mapped over the segments in path_to_insertion_rules
SegmentRules(segment) ==
    IF segment.is_optional
    THEN <<BeginStruct, InsertField(segment.name), BeginOptional>>
    ELSE <<BeginStruct, InsertField(segment.name)>>

\* mutant of path_to_insertion_rules: no AppendDataType is chained
path_to_insertion_rules_unterminated(path, data_type) ==
    FlattenRules([i \in 1..Len(path) |-> SegmentRules(path[i])])

path_to_insertion_rules(path, data_type) ==
    FlattenRules([i \in 1..Len(path) |-> SegmentRules(path[i])])
        \o <<AppendDataType(data_type)>>

(***************************************************************************)
(* StructHierarchy::insert.  The result is the Result of the call and the  *)
(* value of *self after it (a failed call may already have created         *)
(* fields through entry().or_default()).                                   *)
(***************************************************************************)
Ok(node) == [ok |-> TRUE, node |-> node]

Err(node) == [ok |-> FALSE, node |-> node]

RECURSIVE insert(_, _)

\* Struct arm, InsertField: fields.entry(name).or_default().insert(rest);
\* the entry stays in the map whatever the recursive call returns
StructInsertField(self, name, rest) ==
    LET r == insert(EntryOrDefault(self.fields, name), rest)
    IN  [ok |-> r.ok, node |-> Struct(Put(self.fields, name, r.node))]

\* mutant of StructBeginOptional: the child is not wrapped
StructBeginOptionalUnwrapped(self, rest) ==
    IF DOMAIN self.fields # {} THEN Err(self)
    ELSE LET r == insert(Default, rest)
         IN  IF r.ok THEN Ok(r.node) ELSE Err(self)

\* mutant of StructBeginOptional: no check that the struct is empty
StructBeginOptionalUnguarded(self, rest) ==
    LET r == insert(Default, rest)
    IN  IF r.ok THEN Ok(Optional(r.node)) ELSE Err(self)

\* Struct arm, BeginOptional: the child is a local value, *self is only
\* replaced after child.insert(rest)? returned Ok
StructBeginOptional(self, rest) ==
    IF DOMAIN self.fields # {} THEN Err(self)
    ELSE LET r == insert(Default, rest)
         IN  IF r.ok THEN Ok(Optional(r.node)) ELSE Err(self)

\* Struct arm, BeginStruct
StructBeginStruct(self, rest) == insert(self, rest)

\* mutant of StructAppendDataType: the fields are not looked at
StructAppendDataTypeUnguarded(self, data_type) == Ok(Field(data_type))

\* mutant of StructAppendDataType: the condition on the fields is inverted
StructAppendDataTypeInverted(self, data_type) ==
    IF DOMAIN self.fields = {} THEN Err(self) ELSE Ok(Field(data_type))

\* Struct arm, AppendDataType
StructAppendDataType(self, data_type) ==
    IF DOMAIN self.fields # {} THEN Err(self) ELSE Ok(Field(data_type))

\* mutant of OptionalRule: every rule but BeginOptional is handed to the child
OptionalRuleTransparent(self, first_rule, rest) ==
    LET r == IF first_rule.rule = "BeginOptional"
             THEN insert(self.child, rest)
             ELSE insert(self.child, <<first_rule>> \o rest)
    IN  [ok |-> r.ok, node |-> Optional(r.node)]

\* Optional arm
OptionalRule(self, first_rule, rest) ==
    CASE first_rule.rule = "InsertField" -> Err(self)
      [] first_rule.rule = "BeginOptional" ->
           LET r == insert(self.child, rest)
           IN  [ok |-> r.ok, node |-> Optional(r.node)]
      [] first_rule.rule = "BeginStruct" -> Err(self)
      [] first_rule.rule = "AppendDataType" -> Err(self)

\* mutant of FieldRule: a Field accepts nothing but AppendDataType
FieldRuleStrict(self, first_rule) ==
    IF first_rule.rule = "AppendDataType"
    THEN IF self.data_type # first_rule.data_type THEN Err(self) ELSE Ok(self)
    ELSE Err(self)

\* mutant of FieldRule: the data type is assigned before it is compared
FieldRuleAssignsFirst(self, first_rule) ==
    IF first_rule.rule = "AppendDataType"
    THEN IF self.data_type # first_rule.data_type
         THEN Err(Field(first_rule.data_type)) ELSE Ok(self)
    ELSE Ok(self)

\* mutant of FieldRule: a second AppendDataType replaces the data type
FieldRuleLastWins(self, first_rule) ==
    IF first_rule.rule = "AppendDataType" THEN Ok(Field(first_rule.data_type))
    ELSE Ok(self)

\* mutant of FieldRule: the data types are not compared
FieldRuleUnchecked(self, first_rule) == Ok(self)

\* mutant of FieldRule: AppendDataType on a Field always fails
FieldRuleRejectsRepeat(self, first_rule) ==
    IF first_rule.rule = "AppendDataType" THEN Err(self) ELSE Ok(self)

\* Field arm
FieldRule(self, first_rule) ==
    CASE first_rule.rule = "InsertField" -> Ok(self)
      [] first_rule.rule = "BeginOptional" -> Ok(self)
      [] first_rule.rule = "BeginStruct" -> Ok(self)
      [] first_rule.rule = "AppendDataType" ->
           IF self.data_type # first_rule.data_type THEN Err(self) ELSE Ok(self)

insert(self, insertion_rules) ==
    IF insertion_rules = <<>> THEN Ok(self)
    ELSE
    LET first_rule == Head(insertion_rules)
        rest == Tail(insertion_rules)
    IN  CASE self.kind = "Struct" ->
               (CASE first_rule.rule = "InsertField" ->
                       StructInsertField(self, first_rule.name, rest)
                  [] first_rule.rule = "BeginOptional" ->
                       StructBeginOptional(self, rest)
                  [] first_rule.rule = "BeginStruct" ->
                       StructBeginStruct(self, rest)
                  [] first_rule.rule = "AppendDataType" ->
                       StructAppendDataType(self, first_rule.data_type))
          [] self.kind = "Optional" -> OptionalRule(self, first_rule, rest)
          [] self.kind = "Field" -> FieldRule(self, first_rule)

(***************************************************************************)
(* unwrap_option_data_type                                                 *)
(***************************************************************************)
TypeOk(data_type) == [ok |-> TRUE, data_type |-> data_type]

TypeErr == [ok |-> FALSE, data_type |-> TypeT]

\* mutant of unwrap_option_data_type: the data type is passed on as it is
unwrap_keeps_option(data_type) == TypeOk(data_type)

unwrap_option_data_type(data_type) ==
    IF /\ data_type.variant = "Path"
       /\ Len(data_type.segments) = 1
       /\ data_type.segments[1].ident = "Option"
    THEN LET arguments == data_type.segments[1].arguments
         IN  IF arguments.kind = "AngleBracketed" /\ Len(arguments.args) = 1
             THEN IF arguments.args[1].kind = "Type"
                  THEN TypeOk(arguments.args[1].ty)
                  ELSE TypeErr
             ELSE TypeErr
    ELSE TypeErr

\* data_type_wrapped_in_option of the additional outputs
WrappedInOption(data_type) == OptionOf(<<TypeArgument(data_type)>>)

\* path.iter().any(|segment| segment.is_optional)
PathContainsOptional(path) == \E i \in 1..Len(path) : path[i].is_optional

(***************************************************************************)
(* The declared paths of the fields and their expansion.  A declared       *)
(* segment is a name or a variable, optional or not; the variable          *)
(* cycler_instance is bound to the instances of the cycler.                *)
(***************************************************************************)
Segment(name, is_optional) == [name |-> name, is_optional |-> is_optional]

Declared(name, is_optional, is_variable) ==
    [name |-> name, is_optional |-> is_optional, is_variable |-> is_variable]

DeclaredPaths ==
    {<<Declared("a", FALSE, FALSE)>>,
     <<Declared("a", TRUE, FALSE)>>,
     <<Declared("a", FALSE, FALSE), Declared("b", FALSE, FALSE)>>,
     <<Declared("cycler_instance", FALSE, TRUE), Declared("b", TRUE, FALSE)>>,
     <<Declared("unbound", FALSE, TRUE)>>}

\* cycler_instances.modules_to_instances[cycler_module]
InstancesOf(cycler_module) ==
    IF cycler_module % 2 = 1 THEN <<"a", "b">> ELSE <<"b">>

Variables == {"cycler_instance"}

HasVariable(path) == \E i \in 1..Len(path) : path[i].is_variable

\* expand_variables_from_path: one path for every binding of the variables
\* of the path, an error for a variable that is not bound
expand_variables_from_path(path, instances) ==
    IF \E i \in 1..Len(path) : path[i].is_variable /\ path[i].name \notin Variables
    THEN [ok |-> FALSE, paths |-> <<>>]
    ELSE IF ~HasVariable(path)
    THEN [ok |-> TRUE,
          paths |-> <<[i \in 1..Len(path) |->
                         Segment(path[i].name, path[i].is_optional)]>>]
    ELSE [ok |-> TRUE,
          paths |-> [k \in 1..Len(instances) |->
                       [i \in 1..Len(path) |->
                          Segment(IF path[i].is_variable THEN instances[k]
                                  ELSE path[i].name,
                                  path[i].is_optional)]]]

(***************************************************************************)
(* The anyhow errors.  An error is the chain of its messages, the          *)
(* outermost context first; a message is its text and the values that are  *)
(* formatted into it, each tagged with what it is.                         *)
(***************************************************************************)
Arg(what, value) == [what |-> what, value |-> value]

Message(text, args) == [text |-> text, args |-> args]

NoError == <<>>

\* the bail! of insert that ends the call on self with insertion_rules;
\* NoError when the call returns Ok
RECURSIVE insert_error(_, _)
insert_error(self, insertion_rules) ==
    IF insertion_rules = <<>> THEN NoError
    ELSE
    LET first_rule == Head(insertion_rules)
        rest == Tail(insertion_rules)
    IN  CASE self.kind = "Struct" ->
               (CASE first_rule.rule = "InsertField" ->
                       insert_error(EntryOrDefault(self.fields, first_rule.name), rest)
                  [] first_rule.rule = "BeginOptional" ->
                       IF DOMAIN self.fields # {}
                       THEN <<Message("Failed to begin optional in-place of non-empty struct",
                                      <<>>)>>
                       ELSE insert_error(Default, rest)
                  [] first_rule.rule = "BeginStruct" -> insert_error(self, rest)
                  [] first_rule.rule = "AppendDataType" ->
                       IF DOMAIN self.fields # {}
                       THEN <<Message("Failed to append data type in-place of non-empty struct",
                                      <<>>)>>
                       ELSE NoError)
          [] self.kind = "Optional" ->
               (CASE first_rule.rule = "InsertField" ->
                       <<Message("Failed to insert field with name {name} to optional",
                                 <<Arg("segment", first_rule.name)>>)>>
                  [] first_rule.rule = "BeginOptional" -> insert_error(self.child, rest)
                  [] first_rule.rule = "BeginStruct" ->
                       <<Message("Failed to begin struct in-place of optional", <<>>)>>
                  [] first_rule.rule = "AppendDataType" ->
                       <<Message("Failed to append data type in-place of optional", <<>>)>>)
          [] self.kind = "Field" ->
               IF /\ first_rule.rule = "AppendDataType"
                  /\ self.data_type # first_rule.data_type
               THEN <<Message("Unmatching data types: previous data type {} does not match data type {} to be appended",
                              <<Arg("data_type", self.data_type),
                                Arg("data_type", first_rule.data_type)>>)>>
               ELSE NoError

\* the bail! of unwrap_option_data_type
unwrap_error(data_type) ==
    IF /\ data_type.variant = "Path"
       /\ Len(data_type.segments) = 1
       /\ data_type.segments[1].ident = "Option"
    THEN LET arguments == data_type.segments[1].arguments
         IN  IF arguments.kind = "AngleBracketed" /\ Len(arguments.args) = 1
             THEN IF arguments.args[1].kind = "Type" THEN NoError
                  ELSE <<Message("Unexpected generic argument, expected type argument in data type",
                                 <<>>)>>
             ELSE <<Message("Expected exactly one generic type argument in data type",
                            <<>>)>>
    ELSE <<Message("Execpted Option<T> as data type", <<>>)>>

\* the error of expand_variables_from_path
expand_error == <<Message("expand_variables_from_path", <<>>)>>

\* .with_context(|| anyhow!("... {name}")): the context goes in front
with_context(text, name, error) == <<Message(text, <<Arg("name", name)>>)>> \o error

(***************************************************************************)
(* The loops over the expanded paths in try_from_crates_directory: every   *)
(* path is compiled and inserted, the first Err ends the loop.  For a      *)
(* parameter the data type is unwrapped first when the path contains an    *)
(* optional segment.  The result is the failure, the node after the loop   *)
(* the rules that were handed to insert and the error of the failing call. *)
(***************************************************************************)
RECURSIVE InsertExpandedPaths(_, _, _, _)
InsertExpandedPaths(node, expanded_paths, data_type, is_parameter) ==
    IF expanded_paths = <<>>
    THEN [failure |-> "none", node |-> node, inserted |-> <<>>, error |-> NoError]
    ELSE
    LET path == Head(expanded_paths)
        unwrapped == IF is_parameter /\ PathContainsOptional(path)
                     THEN unwrap_option_data_type(data_type)
                     ELSE TypeOk(data_type)
    IN  IF ~unwrapped.ok
        THEN [failure |-> "unwrap", node |-> node, inserted |-> <<>>,
              error |-> unwrap_error(data_type)]
        ELSE
        LET insertion_rules == path_to_insertion_rules(path, unwrapped.data_type)
            r == insert(node, insertion_rules)
        IN  IF ~r.ok
            THEN [failure |-> "insert", node |-> r.node,
                  inserted |-> <<insertion_rules>>,
                  error |-> insert_error(node, insertion_rules)]
            ELSE LET t == InsertExpandedPaths(r.node, Tail(expanded_paths),
                                              data_type, is_parameter)
                 IN  [failure |-> t.failure, node |-> t.node,
                      inserted |-> <<insertion_rules>> \o t.inserted,
                      error |-> t.error]

\* the texts of the contexts of try_from_crates_directory
ExpandText(kind) ==
    CASE kind = "AdditionalOutput" ->
           "Failed to expand path variables for additional output {name}"
      [] kind = "Parameter" ->
           "Failed to expand path variables for parameter {name}"
      [] kind = "PersistentState" ->
           "Failed to expand path variables for persistent state {name}"

UnwrapText == "Failed to unwrap Option<T> from data type for parameter {name}"

InsertText(kind) ==
    CASE kind = "AdditionalOutput" ->
           "Failed to insert expanded path into additional outputs for additional output {name}"
      [] kind = "Parameter" ->
           "Failed to insert expanded path into configuration for parameter {name}"
      [] kind = "PersistentState" ->
           "Failed to insert expanded path into persistent state for persistent state {name}"

\* the error that a field of the given kind returns: the cause in its context
StepError(kind, name, failure, cause) ==
    CASE failure = "none" -> NoError
      [] failure = "expand" -> with_context(ExpandText(kind), name, expand_error)
      [] failure = "unwrap" -> with_context(UnwrapText, name, cause)
      [] failure = "insert" -> with_context(InsertText(kind), name, cause)

\* mutant of Propagate: only the error of insert is returned
PropagateInsertOnly(failure) == IF failure = "insert" THEN "err" ELSE "running"

\* mutant of Propagate: the error of a step is dropped
PropagateNothing(failure) == "running"

\* the ? and bail! of try_from_crates_directory: a failure returns Err
Propagate(failure) == IF failure = "none" THEN "running" ELSE "err"

\* impl Default for CyclerStructs (derived)
DefaultCyclerStructs ==
    [main_outputs |-> Default, additional_outputs |-> Default,
     persistent_state |-> Default]

\* impl Default for Structs (derived)
DefaultStructs ==
    [configuration |-> Default, cycler_structs |-> [c \in {} |-> 0]]

(***************************************************************************)
(* State.  hierarchy, before, batch, rules, outcome: one StructHierarchy   *)
(* built on its own.  structs, state, cycler: a run of                     *)
(* try_from_crates_directory; steps, failed_at, last and previous record   *)
(* its history.  call_self, call_rules, calls, first_len, returned: the     *)
(* calls of insert on itself during one merge, call by call.  is_enabled,  *)
(* look_at_mode, camera_position, look_at_target: the LookAtPanel;         *)
(* injected_motion_command is the last value the panel has written to     *)
(* behavior.injected_motion_command, frame the last call of ui.            *)
(***************************************************************************)
VARIABLES hierarchy, before, batch, rules, outcome,
          structs, state, cycler, steps, failed_at, last, previous,
          call_self, call_rules, calls, first_len, returned,
          is_enabled, look_at_mode, camera_position, look_at_target,
          injected_motion_command, frame

insert_vars == <<hierarchy, before, batch, rules, outcome>>

structs_vars == <<structs, state, cycler, steps, failed_at, last, previous>>

call_vars == <<call_self, call_rules, calls, first_len, returned>>

panel_vars == <<is_enabled, look_at_mode, camera_position, look_at_target,
                injected_motion_command, frame>>

vars == <<insert_vars, structs_vars, call_vars, panel_vars>>

Pair(path, data_type) == [path |-> path, data_type |-> data_type]

(***************************************************************************)
(* The values of the LookAtPanel.  An Option is a sequence of at most one  *)
(* value, a Point2 a pair of integers, and a serde_json::Value a record    *)
(* with the name of its variant.                                           *)
(***************************************************************************)
None == <<>>

Some(value) == <<value>>

\* const DEFAULT_TARGET: Point2<f32> = point![1.0, 0.0]
DEFAULT_TARGET == <<1, 0>>

\* const FALLBACK_MAX_FIELD_DIMENSION: f32 = 10.0
FALLBACK_MAX_FIELD_DIMENSION == 10

\* Value::Null
Null == [variant |-> "Null"]

\* nothing has been written by the panel
NotWritten == [variant |-> "NotWritten"]

\* HeadMotion::LookAt { target, camera }
LookAt(target, camera) == [variant |-> "LookAt", target |-> target, camera |-> camera]

\* MotionCommand::Stand { head, is_energy_saving }
Stand(head, is_energy_saving) ==
    [variant |-> "Stand", head |-> head, is_energy_saving |-> is_energy_saving]

\* the value that send_standing_look_at writes
send_standing_look_at(target, camera_option) ==
    Stand(LookAt(target, camera_option), FALSE)

NoFrame ==
    [checkbox_changed |-> FALSE, send_clicked |-> FALSE, writes |-> <<>>,
     target_before |-> DEFAULT_TARGET, camera_before |-> Some("Top")]

\* LookAtPanel::new
InitPanel ==
    /\ is_enabled = FALSE
    /\ look_at_mode = "PenaltyBoxFromCenter"
    /\ camera_position = Some("Top")
    /\ look_at_target = DEFAULT_TARGET
    /\ injected_motion_command = NotWritten
    /\ frame = NoFrame

NoStep ==
    [kind |-> "none", cycler |-> 0, name |-> "", path |-> <<>>,
     data_type |-> TypeT, expanded |-> <<>>, inserted |-> <<>>,
     failure |-> "none", error |-> NoError]

InitHierarchy ==
    /\ hierarchy = Default
    /\ before = Default
    /\ batch = <<>>
    /\ rules = <<>>
    /\ outcome = "ok"

\* let mut structs = Self::default()
InitStructs ==
    /\ structs = DefaultStructs
    /\ state = "start"
    /\ cycler = 0
    /\ steps = 0
    /\ failed_at = -1
    /\ last = NoStep
    /\ previous = DefaultStructs

\* no call of insert is running
InitCalls ==
    /\ call_self = Default
    /\ call_rules = <<>>
    /\ calls = 0
    /\ first_len = 0
    /\ returned = TRUE

Init == InitHierarchy /\ InitStructs /\ InitCalls /\ InitPanel

(***************************************************************************)
(* The merge engine on its own: one StructHierarchy, built as in the unit  *)
(* tests from StructHierarchy::default() by inserting compiled paths.      *)
(***************************************************************************)
\* hierarchy.insert(path_to_insertion_rules(&path, &data_type)); an Err
\* ends the construction (the ? operator of the callers)
InsertPath(path, data_type) ==
    /\ outcome = "ok"
    /\ Len(batch) < MaxBatch
    /\ LET insertion_rules == path_to_insertion_rules(path, data_type)
           r == insert(hierarchy, insertion_rules)
       IN  /\ rules' = insertion_rules
           /\ hierarchy' = r.node
           /\ outcome' = IF r.ok THEN "ok" ELSE "err"
    /\ before' = hierarchy
    /\ batch' = Append(batch, Pair(path, data_type))
    /\ UNCHANGED <<structs_vars, call_vars, panel_vars>>

NextInsert == \E path \in Paths, data_type \in LeafTypes : InsertPath(path, data_type)

SpecInsert == Init /\ [][NextInsert]_vars

(***************************************************************************)
(* One merge call by call: insert on the root, the calls of insert on      *)
(* itself, and the return of the result to the caller.                     *)
(***************************************************************************)
\* the merges of a construction that is followed call by call
MaxCallBatch == 2

\* the calls of one merge that are followed
MaxCalls == 3 * MaxPathLen + 4

\* mutant of split_off_1: the rules are handed on as they are
split_off_0(insertion_rules) == insertion_rules

\* insertion_rules.split_off(1): the rules without the first
split_off_1(insertion_rules) == Tail(insertion_rules)

NoCall == [call |-> FALSE]

CallOn(node) == [call |-> TRUE, self |-> node]

\* the node on which insert calls itself when first_rule arrives at self
RecursiveCall(self, first_rule) ==
    CASE self.kind = "Struct" ->
           (CASE first_rule.rule = "InsertField" ->
                   CallOn(EntryOrDefault(self.fields, first_rule.name))
              [] first_rule.rule = "BeginOptional" ->
                   IF DOMAIN self.fields # {} THEN NoCall ELSE CallOn(Default)
              [] first_rule.rule = "BeginStruct" -> CallOn(self)
              [] first_rule.rule = "AppendDataType" -> NoCall)
      [] self.kind = "Optional" ->
           IF first_rule.rule = "BeginOptional" THEN CallOn(self.child) ELSE NoCall
      [] self.kind = "Field" -> NoCall

\* the call ends without a call of insert: no rule is left, or the rule is
\* handled at self
ReturnsHere == call_rules = <<>> \/ ~RecursiveCall(call_self, Head(call_rules)).call

\* hierarchy.insert(path_to_insertion_rules(&path, &data_type)) is called
StartInsert(path, data_type) ==
    /\ outcome = "ok"
    /\ returned
    /\ Len(batch) < MaxCallBatch
    /\ LET insertion_rules == path_to_insertion_rules(path, data_type)
       IN  /\ rules' = insertion_rules
           /\ call_rules' = insertion_rules
           /\ first_len' = Len(insertion_rules)
    /\ call_self' = hierarchy
    /\ calls' = 1
    /\ returned' = FALSE
    /\ batch' = Append(batch, Pair(path, data_type))
    /\ before' = hierarchy
    /\ UNCHANGED <<hierarchy, outcome, structs_vars, panel_vars>>

\* insert calls itself
Call ==
    /\ ~returned
    /\ ~ReturnsHere
    /\ calls < MaxCalls
    /\ call_self' = RecursiveCall(call_self, Head(call_rules)).self
    /\ call_rules' = split_off_1(call_rules)
    /\ calls' = calls + 1
    /\ UNCHANGED <<first_len, returned, insert_vars, structs_vars, panel_vars>>

\* the innermost call returns and with it all the calls
ReturnInsert ==
    /\ ~returned
    /\ ReturnsHere
    /\ returned' = TRUE
    /\ LET r == insert(hierarchy, rules)
       IN  /\ hierarchy' = r.node
           /\ outcome' = IF r.ok THEN "ok" ELSE "err"
    /\ UNCHANGED <<before, batch, rules, call_self, call_rules, calls, first_len,
                   structs_vars, panel_vars>>

NextCalls ==
    \/ \E path \in Paths, data_type \in LeafTypes : StartInsert(path, data_type)
    \/ Call
    \/ ReturnInsert

SpecCalls == Init /\ [][NextCalls]_vars /\ WF_vars(Call) /\ WF_vars(ReturnInsert)

(***************************************************************************)
(* Structs::try_from_crates_directory.  The cycler instances, the modules  *)
(* and their fields are the input; every action is one step of the loops   *)
(* on the next element of the input.                                       *)
(***************************************************************************)
\* the end of a step on a field: the history, and Err on a failure
EndStep(step) ==
    /\ last' = [step EXCEPT !.cycler = cycler]
    /\ previous' = structs
    /\ steps' = steps + 1
    /\ state' = Propagate(step.failure)
    /\ failed_at' = IF step.failure = "none" THEN failed_at ELSE steps + 1
    /\ UNCHANGED <<cycler, insert_vars, call_vars, panel_vars>>

\* the names of the fields that are declared with a path
FieldNames == {"x"}

InField == state = "running" /\ cycler > 0 /\ steps < MaxFields

\* mutant of CyclerStructsWith: the cyclers share one CyclerStructs
CyclerStructsShared(category, node) ==
    [structs EXCEPT !.cycler_structs =
        [c \in DOMAIN structs.cycler_structs |->
            [structs.cycler_structs[c] EXCEPT ![category] = node]]]

\* mutant of CyclerStructsWith: every category is stored in main_outputs
CyclerStructsInMainOutputs(category, node) ==
    [structs EXCEPT !.cycler_structs[cycler] =
        [structs.cycler_structs[cycler] EXCEPT !.main_outputs = node]]

\* cycler_structs.<category> = node for the cycler of the iteration
CyclerStructsWith(category, node) ==
    [structs EXCEPT !.cycler_structs[cycler] =
        [structs.cycler_structs[cycler] EXCEPT ![category] = node]]

\* CyclerInstances::try_from_crates_directory and
\* Modules::try_from_crates_directory with their ?
Load(loaded) ==
    /\ state = "start"
    /\ state' = IF loaded THEN "running" ELSE "err"
    /\ failed_at' = IF loaded THEN failed_at ELSE steps
    /\ last' = IF loaded THEN last
               ELSE [NoStep EXCEPT !.kind = "Load", !.failure = "load",
                        !.error = <<Message("Failed to get cycler instances",
                                            <<>>)>>]
    /\ UNCHANGED <<structs, cycler, steps, previous, insert_vars, call_vars, panel_vars>>

\* the next iteration of the loop over cycler_modules_to_modules:
\* structs.cycler_structs.entry(cycler_module).or_default()
EnterCycler ==
    /\ state = "running"
    /\ cycler < MaxCyclers
    /\ cycler' = cycler + 1
    /\ structs' = [structs EXCEPT !.cycler_structs =
                      [c \in (DOMAIN structs.cycler_structs) \cup {cycler + 1} |->
                          IF c \in DOMAIN structs.cycler_structs
                          THEN structs.cycler_structs[c]
                          ELSE DefaultCyclerStructs]]
    /\ UNCHANGED <<state, steps, failed_at, last, previous, insert_vars, call_vars, panel_vars>>

\* Field::MainOutput in contexts.main_outputs
MainOutput(name, data_type) ==
    /\ InField
    /\ LET main_outputs == structs.cycler_structs[cycler].main_outputs
           is_struct == main_outputs.kind = "Struct"
       IN  /\ structs' =
                 IF is_struct
                 THEN CyclerStructsWith("main_outputs",
                         Struct(Put(main_outputs.fields, name, Field(data_type))))
                 ELSE structs
           /\ EndStep([NoStep EXCEPT !.kind = "MainOutput", !.name = name,
                          !.data_type = data_type,
                          !.failure = IF is_struct THEN "none" ELSE "non-struct",
                          !.error = IF is_struct THEN NoError
                                    ELSE <<Message("Unexpected non-struct hierarchy in main outputs",
                                                   <<>>)>>])

\* any other field in contexts.main_outputs
UnexpectedMainOutput ==
    /\ InField
    /\ structs' = structs
    /\ EndStep([NoStep EXCEPT !.kind = "UnexpectedMainOutput",
                   !.failure = "unexpected",
                   !.error = <<Message("Unexpected field {field:?} in MainOutputs",
                                       <<Arg("field", "UnexpectedMainOutput")>>)>>])

\* Field::AdditionalOutput in new_context or cycle_context
AdditionalOutput(name, path, data_type) ==
    /\ InField
    /\ LET expanded == expand_variables_from_path(path, InstancesOf(cycler))
           r == InsertExpandedPaths(structs.cycler_structs[cycler].additional_outputs,
                                    expanded.paths, WrappedInOption(data_type), FALSE)
           step == [NoStep EXCEPT !.kind = "AdditionalOutput", !.name = name, !.path = path,
                       !.data_type = data_type, !.expanded = expanded.paths]
       IN  IF ~expanded.ok
           THEN /\ structs' = structs
                /\ EndStep([step EXCEPT !.failure = "expand",
                               !.error = StepError("AdditionalOutput", name, "expand", NoError)])
           ELSE /\ structs' = CyclerStructsWith("additional_outputs", r.node)
                /\ EndStep([step EXCEPT !.failure = r.failure,
                               !.inserted = r.inserted,
                               !.error = StepError("AdditionalOutput", name, r.failure, r.error)])

\* Field::Parameter in new_context or cycle_context
Parameter(name, path, data_type) ==
    /\ InField
    /\ LET expanded == expand_variables_from_path(path, InstancesOf(cycler))
           r == InsertExpandedPaths(structs.configuration, expanded.paths,
                                    data_type, TRUE)
           step == [NoStep EXCEPT !.kind = "Parameter", !.name = name, !.path = path,
                       !.data_type = data_type, !.expanded = expanded.paths]
       IN  IF ~expanded.ok
           THEN /\ structs' = structs
                /\ EndStep([step EXCEPT !.failure = "expand",
                               !.error = StepError("Parameter", name, "expand", NoError)])
           ELSE /\ structs' = [structs EXCEPT !.configuration = r.node]
                /\ EndStep([step EXCEPT !.failure = r.failure,
                               !.inserted = r.inserted,
                               !.error = StepError("Parameter", name, r.failure, r.error)])

\* Field::PersistentState in new_context or cycle_context
PersistentState(name, path, data_type) ==
    /\ InField
    /\ LET expanded == expand_variables_from_path(path, InstancesOf(cycler))
           r == InsertExpandedPaths(structs.cycler_structs[cycler].persistent_state,
                                    expanded.paths, data_type, FALSE)
           step == [NoStep EXCEPT !.kind = "PersistentState", !.name = name, !.path = path,
                       !.data_type = data_type, !.expanded = expanded.paths]
       IN  IF ~expanded.ok
           THEN /\ structs' = structs
                /\ EndStep([step EXCEPT !.failure = "expand",
                               !.error = StepError("PersistentState", name, "expand", NoError)])
           ELSE /\ structs' = CyclerStructsWith("persistent_state", r.node)
                /\ EndStep([step EXCEPT !.failure = r.failure,
                               !.inserted = r.inserted,
                               !.error = StepError("PersistentState", name, r.failure, r.error)])

\* Field::HardwareInterface, HistoricInput, Input, PerceptionInput and
\* RequiredInput in new_context or cycle_context
OtherInput ==
    /\ InField
    /\ structs' = structs
    /\ EndStep([NoStep EXCEPT !.kind = "Input"])

\* any other field in new_context or cycle_context
UnexpectedField ==
    /\ InField
    /\ structs' = structs
    /\ EndStep([NoStep EXCEPT !.kind = "UnexpectedField", !.failure = "unexpected",
                   !.error = <<Message("Unexpected field {field:?} in NewContext or CycleContext",
                                       <<Arg("field", "UnexpectedField")>>)>>])

\* the loops are through: Ok(structs)
Return ==
    /\ state = "running"
    /\ state' = "ok"
    /\ UNCHANGED <<structs, cycler, steps, failed_at, last, previous, insert_vars, call_vars, panel_vars>>

Next ==
    \/ \E loaded \in BOOLEAN : Load(loaded)
    \/ EnterCycler
    \/ \E name \in Names, data_type \in MainOutputTypes : MainOutput(name, data_type)
    \/ UnexpectedMainOutput
    \/ \E name \in FieldNames, path \in DeclaredPaths,
          data_type \in AdditionalOutputTypes :
          AdditionalOutput(name, path, data_type)
    \/ \E name \in FieldNames, path \in DeclaredPaths, data_type \in ParameterTypes :
          Parameter(name, path, data_type)
    \/ \E name \in FieldNames, path \in DeclaredPaths,
          data_type \in PersistentStateTypes :
          PersistentState(name, path, data_type)
    \/ OtherInput
    \/ UnexpectedField
    \/ Return

Spec == Init /\ [][Next]_vars

(***************************************************************************)
(* LookAtPanel::ui.  A frame is one call of ui; what the user does to the  *)
(* widgets in the frame and the field dimensions that have arrived are     *)
(* its input.                                                              *)
(***************************************************************************)
\* dimensions.length of the field dimensions that arrive
FieldLengths == {4}

\* current_field_dimensions: Some only in a frame with a notification
CurrentFieldDimensions == {None} \cup {Some(length) : length \in FieldLengths}

LookAtTypes == {"PenaltyBoxFromCenter", "Manual"}

CameraPositions == {Some("Top"), Some("Bottom"), None}

\* the points the two sliders are dragged to
SliderPoints == {<<0, 0>>, <<2, 1>>}

Clamp(value, max_dimension) ==
    IF value > max_dimension THEN max_dimension
    ELSE IF value < -max_dimension THEN -max_dimension ELSE value

\* mutant of EnabledClicked: the widget is added without add_enabled_ui
ClickedWhenDisabled(enabled, clicked) == clicked

\* ui.add_enabled_ui(enabled, ...): a disabled widget takes no click
EnabledClicked(enabled, clicked) == enabled /\ clicked

\* mutant of CheckboxWrites: the value is written for the state before the
\* change
CheckboxWritesInverted(changed, enabled, target, camera) ==
    IF ~changed THEN <<>>
    ELSE IF enabled THEN <<Null>>
    ELSE <<send_standing_look_at(target, camera)>>

\* if ui.checkbox(&mut self.is_enabled, ...).changed(): the values written
\* to INJECTED_MOTION_COMMAND
CheckboxWrites(changed, enabled, target, camera) ==
    IF ~changed THEN <<>>
    ELSE IF enabled THEN <<send_standing_look_at(target, camera)>>
    ELSE <<Null>>

Ui(checkbox, dimensions, mode_clicked, camera_clicked, slider, send) ==
    LET enabled == IF checkbox THEN ~is_enabled ELSE is_enabled
        checkbox_writes ==
            CheckboxWrites(checkbox, enabled, look_at_target, camera_position)
        field_dimensions_are_available == dimensions # None
        mode ==
            IF mode_clicked = Some("Manual") THEN "Manual"
            ELSE IF EnabledClicked(field_dimensions_are_available,
                                   mode_clicked = Some("PenaltyBoxFromCenter"))
                 THEN "PenaltyBoxFromCenter"
                 ELSE look_at_mode
        camera == IF camera_clicked = None THEN camera_position
                  ELSE camera_clicked[1]
        max_dimension == IF field_dimensions_are_available THEN dimensions[1]
                         ELSE FALLBACK_MAX_FIELD_DIMENSION
        target ==
            IF mode = "PenaltyBoxFromCenter"
            THEN IF field_dimensions_are_available
                 THEN <<dimensions[1] \div 2, 0>>
                 ELSE DEFAULT_TARGET
            ELSE IF slider = None THEN look_at_target
                 ELSE <<Clamp(slider[1][1], max_dimension),
                        Clamp(slider[1][2], max_dimension)>>
        send_writes ==
            IF EnabledClicked(enabled, send)
            THEN <<send_standing_look_at(target, camera)>>
            ELSE <<>>
        writes == checkbox_writes \o send_writes
    IN  /\ is_enabled' = enabled
        /\ look_at_mode' = mode
        /\ camera_position' = camera
        /\ look_at_target' = target
        /\ injected_motion_command' =
              IF writes = <<>> THEN injected_motion_command
              ELSE writes[Len(writes)]
        /\ frame' = [checkbox_changed |-> checkbox, send_clicked |-> send,
                     writes |-> writes, target_before |-> look_at_target,
                     camera_before |-> camera_position]
        /\ UNCHANGED <<insert_vars, structs_vars, call_vars>>

NextLookAt ==
    \E checkbox \in BOOLEAN, dimensions \in CurrentFieldDimensions,
       mode_clicked \in {None} \cup {Some(mode) : mode \in LookAtTypes},
       camera_clicked \in {None} \cup {Some(camera) : camera \in CameraPositions},
       slider \in {None} \cup {Some(point) : point \in SliderPoints},
       send \in BOOLEAN :
        Ui(checkbox, dimensions, mode_clicked, camera_clicked, slider, send)

SpecLookAt == Init /\ [][NextLookAt]_vars

(***************************************************************************)
(* Vocabulary of the properties.                                           *)
(***************************************************************************)
\* the optional-child step of a position in a tree
OptStep == "?"

\* the position a path leads to: its names, each followed by OptStep when
\* the segment is optional
RECURSIVE PositionOf(_)
PositionOf(path) ==
    IF path = <<>> THEN <<>>
    ELSE <<Head(path).name>>
           \o (IF Head(path).is_optional THEN <<OptStep>> ELSE <<>>)
           \o PositionOf(Tail(path))

NamesOf(path) == [i \in 1..Len(path) |-> path[i].name]

IsPrefix(s, t) == Len(s) <= Len(t) /\ \A i \in 1..Len(s) : s[i] = t[i]

\* every node of a tree with its position
RECURSIVE Nodes(_)
Nodes(node) ==
    {[pos |-> <<>>, node |-> node]} \cup
    (CASE node.kind = "Struct" ->
            UNION {{[pos |-> <<n>> \o x.pos, node |-> x.node] : x \in Nodes(node.fields[n])}
                   : n \in DOMAIN node.fields}
       [] node.kind = "Optional" ->
            {[pos |-> <<OptStep>> \o x.pos, node |-> x.node] : x \in Nodes(node.child)}
       [] node.kind = "Field" -> {})

\* the leaves of a tree: position and data type
Leaves(node) ==
    {[pos |-> x.pos, data_type |-> x.node.data_type] :
        x \in {y \in Nodes(node) : y.node.kind = "Field"}}

IsEmptyStruct(node) == node.kind = "Struct" /\ DOMAIN node.fields = {}

IsNonEmptyStruct(node) == node.kind = "Struct" /\ DOMAIN node.fields # {}

\* the tree holding the single leaf of one path
RECURSIVE ChainNode(_, _)
ChainNode(path, data_type) ==
    IF path = <<>> THEN Field(data_type)
    ELSE LET inner == ChainNode(Tail(path), data_type)
         IN  Struct([n \in {Head(path).name} |->
                       IF Head(path).is_optional THEN Optional(inner) ELSE inner])

\* a whole construction: the pairs merged in order into one node, stopping
\* at the first Err
RECURSIVE MergeAll(_, _)
MergeAll(node, pairs) ==
    IF pairs = <<>> THEN Ok(node)
    ELSE LET r == insert(node, path_to_insertion_rules(Head(pairs).path,
                                                       Head(pairs).data_type))
         IN  IF r.ok THEN MergeAll(r.node, Tail(pairs)) ELSE r

Reorder(pairs, f) == [i \in 1..Len(pairs) |-> pairs[f[i]]]

Reorderings(pairs) == {Reorder(pairs, f) : f \in Permutations(1..Len(pairs))}

LastPair == batch[Len(batch)]

(***************************************************************************)
(* C1: path_to_insertion_rules returns, for each segment in order,         *)
(* BeginStruct, InsertField(name) and BeginOptional iff the segment is     *)
(* optional, then one AppendDataType(T): length 2n + optionals + 1, one    *)
(* AppendDataType, in last position.                                       *)
(***************************************************************************)
OptionalsBefore(path, i) == Cardinality({j \in 1..(i - 1) : path[j].is_optional})

C1_RulesOfPath ==
    batch # <<>> =>
        LET path == LastPair.path
            n == Len(path)
            off(i) == 2 * (i - 1) + OptionalsBefore(path, i)
        IN  /\ Len(rules) = 2 * n + OptionalsBefore(path, n + 1) + 1
            /\ rules[Len(rules)] = AppendDataType(LastPair.data_type)
            /\ Cardinality({k \in 1..Len(rules) : rules[k].rule = "AppendDataType"}) = 1
            /\ \A i \in 1..n :
                  /\ rules[off(i) + 1] = BeginStruct
                  /\ rules[off(i) + 2] = InsertField(path[i].name)
                  /\ (rules[off(i) + 3] = BeginOptional) <=> path[i].is_optional

C1_Witness ==
    /\ batch # <<>>
    /\ Len(LastPair.path) = 2
    /\ LastPair.path[1].is_optional
    /\ ~LastPair.path[2].is_optional
    /\ Len(rules) = 6
    /\ rules[3] = BeginOptional

(***************************************************************************)
(* C2: inserting the rules of one non-empty path into the default          *)
(* hierarchy succeeds and yields the chain of that path: one field per     *)
(* Struct, Optional at the optional segments, Field(T) at the end.         *)
(***************************************************************************)
C2_SinglePathChain ==
    (Len(batch) = 1 /\ batch[1].path # <<>>) =>
        /\ outcome = "ok"
        /\ hierarchy = ChainNode(batch[1].path, batch[1].data_type)

C2_Witness ==
    /\ Len(batch) = 1
    /\ Len(batch[1].path) = 2
    /\ batch[1].path[2].is_optional
    /\ outcome = "ok"
    /\ hierarchy.kind = "Struct"
    /\ \E n \in DOMAIN hierarchy.fields, m \in Names :
          /\ hierarchy.fields[n].kind = "Struct"
          /\ DOMAIN hierarchy.fields[n].fields = {m}
          /\ hierarchy.fields[n].fields[m] = Optional(Field(batch[1].data_type))

(***************************************************************************)
(* C3 as stated: for every reordering of the batch, either both            *)
(* constructions fail or both succeed with the same tree (here for the     *)
(* batches without an empty path).                                         *)
(***************************************************************************)
C3_OrderIrrelevant ==
    (\A i \in 1..Len(batch) : batch[i].path # <<>>) =>
    \A pairs \in Reorderings(batch) :
        LET r == MergeAll(Default, pairs)
        IN  \/ outcome = "err" /\ ~r.ok
            \/ outcome = "ok" /\ r.ok /\ r.node = hierarchy

(***************************************************************************)
(* C3 amended: the order decides whether the construction fails, but two   *)
(* orders of one batch that both succeed produce the same tree.            *)
(***************************************************************************)
C3_SuccessfulOrdersAgree ==
    \A pairs \in Reorderings(batch) :
        LET r == MergeAll(Default, pairs)
        IN  (outcome = "ok" /\ r.ok) => r.node = hierarchy

C3_Witness ==
    /\ Len(batch) = 3
    /\ outcome = "ok"
    /\ Cardinality(Leaves(hierarchy)) = 3
    /\ \E pairs \in Reorderings(batch) : pairs # batch /\ MergeAll(Default, pairs).ok

(***************************************************************************)
(* C4 as stated: two pairs of a batch with the same path and different     *)
(* leaf types make the construction fail, whatever was merged before       *)
(* (here for the batches without an empty path).                           *)
(***************************************************************************)
C4_SamePathConflictFails ==
    (\A i \in 1..Len(batch) : batch[i].path # <<>>) =>
    \A i, j \in 1..Len(batch) :
        (i < j /\ batch[i].path = batch[j].path
            /\ batch[i].data_type # batch[j].data_type) => outcome = "err"

\* an earlier pair whose leaf lies on the way of `path`: another path whose
\* names are a prefix of the names of `path`
Shadowed(path, i) ==
    \E k \in 1..(i - 1) :
        batch[k].path # path /\ IsPrefix(NamesOf(batch[k].path), NamesOf(path))

(***************************************************************************)
(* C4 amended: two pairs with the same path and different leaf types make  *)
(* the construction fail, unless a pair merged before them has another     *)
(* path whose names are a prefix of theirs (its Leaf swallows both).       *)
(***************************************************************************)
C4_UnshadowedConflictFails ==
    \A i, j \in 1..Len(batch) :
        (i < j /\ batch[i].path = batch[j].path
            /\ batch[i].data_type # batch[j].data_type
            /\ ~Shadowed(batch[i].path, i)) => outcome = "err"

C4_Witness ==
    /\ Len(batch) = 3
    /\ batch[1].path # <<>>
    /\ batch[2].path = batch[3].path
    /\ Len(batch[2].path) = 2
    /\ batch[2].data_type # batch[3].data_type
    /\ ~Shadowed(batch[2].path, 2)
    /\ outcome = "err"
    /\ hierarchy = before

(***************************************************************************)
(* C6: merging a pair that was already merged successfully succeeds and    *)
(* leaves the tree as it was.                                              *)
(***************************************************************************)
C6_Idempotent ==
    (\E i \in 1..(Len(batch) - 1) : batch[i] = LastPair) =>
        outcome = "ok" /\ hierarchy = before

C6_Witness ==
    /\ Len(batch) = 2
    /\ batch[1] = batch[2]
    /\ Len(batch[1].path) = 2
    /\ batch[1].path[1].is_optional
    /\ outcome = "ok"
    /\ hierarchy = ChainNode(batch[1].path, batch[1].data_type)

(***************************************************************************)
(* C7: a Struct with at least one field never becomes Optional: it stays   *)
(* a Struct with its fields through every insert, BeginOptional arriving   *)
(* at it fails and leaves it as it is, and ("a/b", T) then ("a?/c", U)     *)
(* fails on the second merge.                                              *)
(***************************************************************************)
RuleTails == {<<>>} \cup {<<AppendDataType(t)>> : t \in LeafTypes}
                \cup {<<BeginStruct, InsertField(n), AppendDataType(t)>> :
                        n \in Names, t \in LeafTypes}

\* path fills a non-empty Struct at its first segment and then marks that
\* segment optional in the next pair
OptionalOverStruct(first, second) ==
    /\ Len(first.path) = 2
    /\ ~first.path[1].is_optional
    /\ Len(second.path) >= 1
    /\ second.path[1].name = first.path[1].name
    /\ second.path[1].is_optional

C7_NonEmptyStructStays ==
    /\ \A x \in Nodes(before) :
          IsNonEmptyStruct(x.node) =>
             \E y \in Nodes(hierarchy) :
                /\ y.pos = x.pos
                /\ y.node.kind = "Struct"
                /\ DOMAIN x.node.fields \subseteq DOMAIN y.node.fields
    /\ \A x \in Nodes(hierarchy) :
          IsNonEmptyStruct(x.node) =>
             \A rest \in RuleTails :
                insert(x.node, <<BeginOptional>> \o rest) = Err(x.node)
    /\ (Len(batch) = 2 /\ OptionalOverStruct(batch[1], batch[2])) =>
          outcome = "err"

C7_Witness ==
    /\ Len(batch) = 2
    /\ OptionalOverStruct(batch[1], batch[2])
    /\ Len(batch[2].path) = 2
    /\ batch[2].path[2].name # batch[1].path[2].name
    /\ outcome = "err"
    /\ hierarchy = before
    /\ IsNonEmptyStruct(hierarchy.fields[batch[1].path[1].name])

(***************************************************************************)
(* C8: two paths with a common prefix (optional markers included) that     *)
(* differ in the name of the next segment merge into one tree holding      *)
(* exactly the two leaves, the first one untouched.                        *)
(***************************************************************************)
Diverge(p, q) ==
    \E k \in 1..Len(p) :
        /\ k <= Len(q)
        /\ \A i \in 1..(k - 1) : p[i] = q[i]
        /\ p[k].name # q[k].name

LeafOf(pair) == [pos |-> PositionOf(pair.path), data_type |-> pair.data_type]

C8_SharedPrefix ==
    (Len(batch) = 2 /\ Diverge(batch[1].path, batch[2].path)) =>
        /\ outcome = "ok"
        /\ Leaves(before) = {LeafOf(batch[1])}
        /\ Leaves(hierarchy) = {LeafOf(batch[1]), LeafOf(batch[2])}
        /\ \A x \in Nodes(hierarchy) : ~IsEmptyStruct(x.node)
        /\ \A x \in Nodes(before) :
              \E y \in Nodes(hierarchy) : y.pos = x.pos /\ y.node.kind = x.node.kind

C8_Witness ==
    /\ Len(batch) = 2
    /\ Len(batch[1].path) = 2
    /\ Len(batch[2].path) = 2
    /\ batch[1].path[1] = batch[2].path[1]
    /\ batch[1].path[1].is_optional
    /\ batch[1].path[2].name # batch[2].path[2].name
    /\ batch[1].data_type # batch[2].data_type
    /\ outcome = "ok"
    /\ Cardinality(Leaves(hierarchy)) = 2

(***************************************************************************)
(* C5 as stated: a main output whose name is already present leaves the    *)
(* node unchanged when the type is identical and fails the construction    *)
(* when the type differs.                                                  *)
(***************************************************************************)
MainOutputsOf(s, cycler_module) == s.cycler_structs[cycler_module].main_outputs

C5_DuplicateMainOutput ==
    (/\ last.kind = "MainOutput"
     /\ last.name \in DOMAIN MainOutputsOf(previous, last.cycler).fields) =>
        IF MainOutputsOf(previous, last.cycler).fields[last.name] = Field(last.data_type)
        THEN /\ state # "err"
             /\ MainOutputsOf(structs, last.cycler) = MainOutputsOf(previous, last.cycler)
        ELSE state = "err"

(***************************************************************************)
(* C9: the construction is fail-fast: the first failing step (expansion,   *)
(* unwrap or insert) returns an error, no step is taken after it and no    *)
(* Structs value is returned.                                              *)
(***************************************************************************)
C9_FailFast ==
    /\ last.failure # "none" => state = "err"
    /\ failed_at # -1 => (state = "err" /\ steps = failed_at)
    /\ state = "ok" => (failed_at = -1 /\ last.failure = "none")

C9_Witness ==
    /\ state = "err"
    /\ steps = 2
    /\ failed_at = 2
    /\ last.failure = "insert"
    /\ previous # DefaultStructs
    /\ previous.configuration # Default

(***************************************************************************)
(* C10: a parameter path with an optional segment needs the data type      *)
(* Option<T> and merges the inner T; with another data type the            *)
(* construction fails and nothing of the path is inserted.  A path         *)
(* without optional segment merges the data type as it is, Option<T>       *)
(* included.                                                               *)
(***************************************************************************)
InnerTypes == {TypeT, TypeU}

IsOptionOf(data_type, inner) == data_type = OptionOf(<<TypeArgument(inner)>>)

AppendsOnly(inserted, data_type) ==
    \A k \in 1..Len(inserted) :
        /\ inserted[k][Len(inserted[k])] = AppendDataType(data_type)
        /\ \A i \in 1..(Len(inserted[k]) - 1) : inserted[k][i].rule # "AppendDataType"

C10_ParameterUnwrap ==
    (last.kind = "Parameter" /\ last.failure # "expand") =>
        /\ (PathContainsOptional(last.path)
              /\ \E inner \in InnerTypes : IsOptionOf(last.data_type, inner)) =>
                 /\ last.failure \in {"none", "insert"}
                 /\ last.inserted # <<>>
                 /\ \A inner \in InnerTypes :
                       IsOptionOf(last.data_type, inner) =>
                          AppendsOnly(last.inserted, inner)
        /\ (PathContainsOptional(last.path)
              /\ ~\E inner \in InnerTypes : IsOptionOf(last.data_type, inner)) =>
                 /\ state = "err"
                 /\ last.failure = "unwrap"
                 /\ last.inserted = <<>>
                 /\ structs = previous
        /\ ~PathContainsOptional(last.path) =>
                 /\ last.failure \in {"none", "insert"}
                 /\ last.inserted # <<>>
                 /\ AppendsOnly(last.inserted, last.data_type)

C10_Witness ==
    /\ last.kind = "Parameter"
    /\ Len(last.path) = 2
    /\ PathContainsOptional(last.path)
    /\ IsOptionOf(last.data_type, TypeT)
    /\ last.failure = "none"
    /\ Len(last.inserted) = 2
    /\ Leaves(structs.configuration) =
          {[pos |-> <<"a", "b", OptStep>>, data_type |-> TypeT],
           [pos |-> <<"b", "b", OptStep>>, data_type |-> TypeT]}

C10_WitnessUnwrapFails ==
    /\ last.kind = "Parameter"
    /\ PathContainsOptional(last.path)
    /\ last.data_type = TypeT
    /\ last.failure = "unwrap"
    /\ state = "err"
    /\ steps = 2
    /\ structs.configuration = previous.configuration
    /\ previous.configuration # Default

(***************************************************************************)
(* C11.  The content of the errors of try_from_crates_directory.           *)
(***************************************************************************)
\* the values of the given kind that the messages of the error carry
ArgsOf(error, what) ==
    {error[i].args[j].value :
        <<i, j>> \in {<<m, a>> \in (1..Len(error)) \X (1..4) :
                        /\ a <= Len(error[m].args)
                        /\ error[m].args[a].what = what}}

\* the error names the category whose node was merged into
NamesCategory(error, kind) == \E i \in 1..Len(error) : error[i].text = InsertText(kind)

TypeConflict(error) ==
    \E i \in 1..Len(error) :
        error[i].text = "Unmatching data types: previous data type {} does not match data type {} to be appended"

\* C11: every error that a merge caused identifies the path, the category
\* and the cycler of the merge, and a type conflict the two types
C11_MergeErrorIdentifiesOrigin ==
    (state = "err" /\ last.failure = "insert") =>
        /\ NamesCategory(last.error, last.kind)
        /\ ArgsOf(last.error, "path") # {}
        /\ ArgsOf(last.error, "cycler") # {}
        /\ TypeConflict(last.error) => Cardinality(ArgsOf(last.error, "data_type")) = 2

(***************************************************************************)
(* C12.  A step of try_from_crates_directory changes one node.             *)
(***************************************************************************)
Categories == {"main_outputs", "additional_outputs", "persistent_state"}

CategoryOfKind(kind) ==
    CASE kind = "MainOutput" -> "main_outputs"
      [] kind = "AdditionalOutput" -> "additional_outputs"
      [] kind = "PersistentState" -> "persistent_state"
      [] OTHER -> "none"

\* the nodes of s that differ from the nodes of t; t has the cyclers of s
ChangedNodes(s, t) ==
    {<<c, category>> \in (DOMAIN s.cycler_structs) \X Categories :
        t.cycler_structs[c][category] # s.cycler_structs[c][category]}
    \cup (IF t.configuration # s.configuration
          THEN {<<0, "configuration">>} ELSE {})

\* C12: a step changes at most the one node its field is declared for: the
\* node of the field's category of the cycler of the iteration, the
\* configuration for a parameter; every other node stays as it is
C12_StepChangesOneNode ==
    [][ /\ DOMAIN structs.cycler_structs \subseteq DOMAIN structs'.cycler_structs
        /\ ChangedNodes(structs, structs') \subseteq
              (IF steps' = steps + 1
               THEN IF last'.kind = "Parameter"
                    THEN {<<0, "configuration">>}
                    ELSE {<<cycler, CategoryOfKind(last'.kind)>>}
               ELSE {}) ]_vars

\* a persistent state of the second cycler was merged while the first
\* cycler and the configuration hold other trees
C12_Witness ==
    /\ last.kind = "PersistentState"
    /\ last.cycler = 2
    /\ last.failure = "none"
    /\ ChangedNodes(previous, structs) = {<<2, "persistent_state">>}
    /\ \E category \in Categories : structs.cycler_structs[1][category] # Default

(***************************************************************************)
(* C13.  The failure of expand_variables_from_path among the merges.       *)
(***************************************************************************)
\* no merge has been applied to any node of s
Unmerged(s) ==
    /\ s.configuration = Default
    /\ \A c \in DOMAIN s.cycler_structs : s.cycler_structs[c] = DefaultCyclerStructs

IsProperPrefix(s, t) == IsPrefix(s, t) /\ Len(s) < Len(t)

\* the way of path through node ends at a Field before the path is through
PassesLeaf(node, path) ==
    \E leaf \in Leaves(node) : IsProperPrefix(leaf.pos, PositionOf(path))

DescendingRules == {BeginStruct, BeginOptional} \cup {InsertField(n) : n \in Names}

\* ("a", T) followed by ("a/b", U) or ("a?", U)
LeafThenBelow(first, second) ==
    /\ Len(first.path) = 1
    /\ ~first.path[1].is_optional
    /\ second.path # <<>>
    /\ second.path # first.path
    /\ second.path[1].name = first.path[1].name
    /\ second.data_type # first.data_type

\* C14: InsertField, BeginOptional and BeginStruct arriving at a Field
\* return Ok whatever follows them and leave the Field as it is; a path
\* that runs into a Field of the tree is merged with Ok and the tree stays
\* as it was, as ("a", T) then ("a/b", U) or ("a?", U) leaves Struct{a: T}
C14_FieldPassThrough ==
    /\ \A x \in Nodes(hierarchy) :
          x.node.kind = "Field" =>
             \A first_rule \in DescendingRules, rest \in RuleTails :
                insert(x.node, <<first_rule>> \o rest) = Ok(x.node)
    /\ (batch # <<>> /\ PassesLeaf(before, LastPair.path)) =>
          /\ outcome = "ok"
          /\ hierarchy = before
    /\ (Len(batch) = 2 /\ LeafThenBelow(batch[1], batch[2])) =>
          /\ outcome = "ok"
          /\ hierarchy = ChainNode(batch[1].path, batch[1].data_type)

C14_Witness ==
    /\ Len(batch) = 2
    /\ LeafThenBelow(batch[1], batch[2])
    /\ batch[2].path[1].is_optional
    /\ PassesLeaf(before, batch[2].path)
    /\ hierarchy = Struct([n \in {"a"} |-> Field(TypeT)])

(***************************************************************************)
(* C15.  The rules that arrive at an Optional.                             *)
(***************************************************************************)
\* the way of path through node arrives at an Optional and does not go on
\* with the optional marker: the path ends there or goes on with a name
ReachesOptionalUnmarked(node, path) ==
    \E x \in Nodes(node) :
        /\ x.node.kind = "Optional"
        /\ IsPrefix(x.pos, PositionOf(path))
        /\ \/ Len(PositionOf(path)) = Len(x.pos)
           \/ PositionOf(path)[Len(x.pos) + 1] # OptStep

RejectedByOptional ==
    {BeginStruct} \cup {InsertField(n) : n \in Names}
                  \cup {AppendDataType(t) : t \in LeafTypes}

\* ("a?", T) followed by ("a", T): the path ends at the Optional
OptionalThenPlain(first, second) ==
    /\ Len(first.path) = 1
    /\ first.path[1].is_optional
    /\ Len(second.path) = 1
    /\ second.path[1].name = first.path[1].name
    /\ ~second.path[1].is_optional

\* C15: InsertField, BeginStruct and AppendDataType arriving at an Optional
\* fail and leave it as it is, BeginOptional hands the remaining rules to
\* the child; so a path that arrives at an Optional of the tree without the
\* optional marker fails, also when it ends there
C15_OptionalRejectsUnmarked ==
    /\ \A x \in Nodes(hierarchy) :
          x.node.kind = "Optional" =>
             /\ \A first_rule \in RejectedByOptional, rest \in RuleTails :
                   insert(x.node, <<first_rule>> \o rest) = Err(x.node)
             /\ \A rest \in RuleTails :
                   LET r == insert(x.node.child, rest)
                   IN  insert(x.node, <<BeginOptional>> \o rest)
                          = [ok |-> r.ok, node |-> Optional(r.node)]
    /\ (batch # <<>> /\ ReachesOptionalUnmarked(before, LastPair.path)) =>
          /\ outcome = "err"
          /\ hierarchy = before
    /\ (Len(batch) = 2 /\ OptionalThenPlain(batch[1], batch[2])) => outcome = "err"

C15_Witness ==
    /\ Len(batch) = 2
    /\ OptionalThenPlain(batch[1], batch[2])
    /\ batch[1].data_type = batch[2].data_type
    /\ ReachesOptionalUnmarked(before, batch[2].path)
    /\ outcome = "err"

(***************************************************************************)
(* C16.  AppendDataType arriving at a Struct.                              *)
(***************************************************************************)
\* the path ends at a Struct of node that has fields
EndsAtNonEmptyStruct(node, path) ==
    \E x \in Nodes(node) : x.pos = PositionOf(path) /\ IsNonEmptyStruct(x.node)

\* ("a/b", T) followed by ("a", U)
StructThenPrefix(first, second) ==
    /\ Len(first.path) = 2
    /\ ~first.path[1].is_optional
    /\ second.path = <<first.path[1]>>

\* C16: AppendDataType arriving at a Struct with fields fails and the
\* Struct keeps its fields, so a path that is a proper prefix of a merged
\* path is rejected; only a Struct without fields becomes a Field
C16_AppendKeepsNonEmptyStruct ==
    /\ \A x \in Nodes(hierarchy), t \in LeafTypes :
          /\ IsNonEmptyStruct(x.node) =>
                insert(x.node, <<AppendDataType(t)>>) = Err(x.node)
          /\ IsEmptyStruct(x.node) =>
                insert(x.node, <<AppendDataType(t)>>) = Ok(Field(t))
    /\ (batch # <<>> /\ EndsAtNonEmptyStruct(before, LastPair.path)) =>
          /\ outcome = "err"
          /\ hierarchy = before
    /\ \A x \in Nodes(before), y \in Nodes(hierarchy) :
          (x.pos = y.pos /\ x.node.kind = "Struct" /\ y.node.kind = "Field") =>
             IsEmptyStruct(x.node)
    /\ (Len(batch) = 2 /\ StructThenPrefix(batch[1], batch[2])) => outcome = "err"

C16_Witness ==
    /\ Len(batch) = 2
    /\ StructThenPrefix(batch[1], batch[2])
    /\ EndsAtNonEmptyStruct(before, batch[2].path)
    /\ batch[1].data_type # batch[2].data_type
    /\ outcome = "err"
    /\ hierarchy = ChainNode(batch[1].path, batch[1].data_type)

(***************************************************************************)
(* C17.  The root of main_outputs.                                         *)
(***************************************************************************)
\* a Struct whose fields are all Fields
IsFlatStruct(node) ==
    /\ node.kind = "Struct"
    /\ \A n \in DOMAIN node.fields : node.fields[n].kind = "Field"

\* C17: the main_outputs of every cycler is a Struct in every reachable
\* state (a Struct of Fields: nothing but the assignment of a main output
\* writes into it), and the bail! for a non-struct main_outputs never runs
C17_MainOutputsIsStruct ==
    /\ \A c \in DOMAIN structs.cycler_structs :
          IsFlatStruct(structs.cycler_structs[c].main_outputs)
    /\ last.failure # "non-struct"

\* two main outputs of a cycler whose other nodes have been merged into
C17_Witness ==
    /\ last.kind = "MainOutput"
    /\ last.failure = "none"
    /\ steps = 2
    /\ Cardinality(DOMAIN structs.cycler_structs[last.cycler].main_outputs.fields) = 2

(***************************************************************************)
(* C18.  The calls of insert on itself.                                    *)
(***************************************************************************)
\* C18: insert returns for every tree and every compiled path: every call
\* of insert on itself gets the rules of its caller without the first, so
\* a merge makes at most as many such calls as it has rules; the innermost
\* call decides whether the merge is Ok
C18_InsertTerminates ==
    /\ [](calls <= first_len + 1)
    /\ [](~returned => Len(call_rules) = first_len - (calls - 1))
    /\ [](~returned => insert(call_self, call_rules).ok = insert(hierarchy, rules).ok)
    /\ [](~returned ~> returned)

\* a merge of a path of MaxPathLen optional segments has returned after a
\* call for every rule but the last
C18_Witness ==
    /\ returned
    /\ Len(batch) = 2
    /\ first_len = 3 * MaxPathLen + 1
    /\ calls = first_len
    /\ outcome = "ok"

(***************************************************************************)
(* C19.  The empty path and the empty rules.                               *)
(***************************************************************************)
\* C19: the empty path is compiled to the one rule AppendDataType(T), and
\* merged into the Struct without fields it turns the node itself into the
\* Field of T; no rules merged into any node return Ok and the node
C19_EmptyPathAndEmptyRules ==
    /\ path_to_insertion_rules(<<>>, TypeT) = <<AppendDataType(TypeT)>>
    /\ (batch # <<>> /\ LastPair.path = <<>>) =>
          /\ rules = <<AppendDataType(LastPair.data_type)>>
          /\ IsEmptyStruct(before) =>
                /\ outcome = "ok"
                /\ hierarchy = Field(LastPair.data_type)
    /\ \A x \in Nodes(hierarchy) :
          /\ insert(x.node, <<>>) = Ok(x.node)
          /\ IsEmptyStruct(x.node) =>
                \A t \in LeafTypes :
                   insert(x.node, path_to_insertion_rules(<<>>, t)) = Ok(Field(t))

\* the empty path was merged into the default node
C19_Witness ==
    /\ Len(batch) = 1
    /\ batch[1].path = <<>>
    /\ rules = <<AppendDataType(TypeU)>>
    /\ hierarchy = Field(TypeU)

(***************************************************************************)
(* C20.  The pairs of a merged batch in the tree.                          *)
(***************************************************************************)
NoEmptyPath == \A i \in 1..Len(batch) : batch[i].path # <<>>

\* the pair i runs into the Field that an earlier pair of the batch left
Swallowed(i) ==
    \E k \in 1..(i - 1) :
        IsProperPrefix(PositionOf(batch[k].path), PositionOf(batch[i].path))

\* C20 as stated: after a batch was merged with Ok, every pair of it has
\* its Field at the end of its path
C20_EveryPairRepresented ==
    (outcome = "ok" /\ NoEmptyPath) =>
        \A i \in 1..Len(batch) : LeafOf(batch[i]) \in Leaves(hierarchy)

\* C20: after a batch was merged with Ok, every pair has its Field at the
\* end of its path unless its path runs through the end of the path of an
\* earlier pair; such a pair has left nothing, the Field of the earlier
\* pair is where its path runs through
C20_UnswallowedPairsRepresented ==
    outcome = "ok" =>
        \A i \in 1..Len(batch) :
            IF Swallowed(i)
            THEN /\ PassesLeaf(hierarchy, batch[i].path)
                 /\ \A x \in Nodes(hierarchy) : x.pos # PositionOf(batch[i].path)
            ELSE LeafOf(batch[i]) \in Leaves(hierarchy)

\* a batch of three pairs was merged, the second was swallowed by the first
C20_Witness ==
    /\ outcome = "ok"
    /\ Len(batch) = 3
    /\ NoEmptyPath
    /\ Swallowed(2)
    /\ ~Swallowed(3)
    /\ batch[2].data_type # batch[1].data_type
    /\ Cardinality(Leaves(hierarchy)) = 2

(***************************************************************************)
(* C21.  insert only grows the tree.                                       *)
(***************************************************************************)
AllRules ==
    {BeginStruct, BeginOptional} \cup {InsertField(n) : n \in Names}
                                 \cup {AppendDataType(t) : t \in LeafTypes}

\* rules in any order, as no path compiles to them
RawRules == SeqsUpTo(AllRules, 2)

\* every Field of old is the same Field in new, every Optional of old is
\* an Optional in new, every Struct of old with fields is a Struct in new
\* with these fields
Grown(old, new) ==
    \A x \in Nodes(old) :
        \E y \in Nodes(new) :
            /\ y.pos = x.pos
            /\ x.node.kind = "Field" => y.node = x.node
            /\ x.node.kind = "Optional" => y.node.kind = "Optional"
            /\ IsNonEmptyStruct(x.node) =>
                  /\ y.node.kind = "Struct"
                  /\ DOMAIN x.node.fields \subseteq DOMAIN y.node.fields
            /\ y.node.kind # x.node.kind => IsEmptyStruct(x.node)

\* C21: after every insert, Ok or Err, every Field of the tree is where it
\* was with its data type, every Optional is an Optional where it was,
\* every Struct has the fields it had; only a Struct without fields turns
\* into another variant
C21_InsertOnlyGrows ==
    /\ Grown(before, hierarchy)
    /\ \A x \in Nodes(hierarchy), insertion_rules \in RawRules :
          Grown(x.node, insert(x.node, insertion_rules).node)

\* a failed merge after two merges: the tree of the two merges, with an
\* Optional and two Fields, is kept
C21_Witness ==
    /\ Len(batch) = 3
    /\ outcome = "err"
    /\ Cardinality(Leaves(before)) = 2
    /\ \E x \in Nodes(before) : x.node.kind = "Optional"
    /\ Leaves(hierarchy) = Leaves(before)

(***************************************************************************)
(* C22.  What a failed insert leaves behind.                               *)
(***************************************************************************)
Positions(node) == {x.pos : x \in Nodes(node)}

\* new differs from old at most by Structs at new positions: the Fields
\* are the same, every node of old has its variant, and no new node is a
\* Field or an Optional
OnlyNewStructs(old, new) ==
    /\ Leaves(new) = Leaves(old)
    /\ \A x \in Nodes(old) :
          \E y \in Nodes(new) : y.pos = x.pos /\ y.node.kind = x.node.kind
    /\ \A y \in Nodes(new) :
          y.pos \notin Positions(old) => y.node.kind = "Struct"

\* C22: an insert that returns Err has added no Field and no Optional and
\* has changed the variant of no node; what it leaves behind is at most
\* new Struct fields without any Field or Optional in them
C22_FailedInsertLeavesOnlyStructs ==
    /\ outcome = "err" => OnlyNewStructs(before, hierarchy)
    /\ \A insertion_rules \in RawRules :
          LET r == insert(hierarchy, insertion_rules)
          IN  ~r.ok => OnlyNewStructs(hierarchy, r.node)

\* a path through a new field of a Struct failed further down at a Field
\* of another type
C22_Witness ==
    /\ outcome = "err"
    /\ Len(batch) = 3
    /\ Len(LastPair.path) = 2
    /\ \E leaf \in Leaves(before) :
          /\ leaf.pos = PositionOf(LastPair.path)
          /\ leaf.data_type # LastPair.data_type
    /\ Cardinality(Leaves(before)) = 2

(***************************************************************************)
(* C23.  The shape of a tree of merged paths.                              *)
(***************************************************************************)
\* C23: after merges of compiled paths that all returned Ok, the root is
\* the only node that can be a Struct without fields, and the child of an
\* Optional is a Field or a Struct with fields, never an Optional
C23_NoEmptyStructBelowRoot ==
    outcome = "ok" =>
        \A x \in Nodes(hierarchy) :
            /\ IsEmptyStruct(x.node) => x.pos = <<>>
            /\ x.node.kind = "Optional" =>
                  \/ x.node.child.kind = "Field"
                  \/ IsNonEmptyStruct(x.node.child)

\* three merged paths: an Optional over a Struct and an Optional over a
\* Field
C23_Witness ==
    /\ outcome = "ok"
    /\ Len(batch) = 3
    /\ \E x \in Nodes(hierarchy) :
          x.node.kind = "Optional" /\ x.node.child.kind = "Field"
    /\ \E x \in Nodes(hierarchy) :
          x.node.kind = "Optional" /\ IsNonEmptyStruct(x.node.child)

(***************************************************************************)
(* C24.  The motion command that the look-at panel has injected.           *)
(***************************************************************************)
IsStandLookAt(value) ==
    /\ value.variant = "Stand"
    /\ value.head.variant = "LookAt"

\* C24: the last value the panel has written to
\* behavior.injected_motion_command is a Stand with LookAt only while the
\* checkbox is enabled: the frame that enables the checkbox writes the
\* Stand with LookAt, the frame that disables it writes Null and nothing
\* else, and a click on Send Command writes only in a frame in which the
\* checkbox is enabled
C24_LookAtOnlyWhileEnabled ==
    /\ IsStandLookAt(injected_motion_command) => is_enabled
    /\ ~is_enabled => injected_motion_command \in {NotWritten, Null}
    /\ (frame.checkbox_changed /\ is_enabled) =>
          /\ frame.writes # <<>>
          /\ frame.writes[1] =
                send_standing_look_at(frame.target_before, frame.camera_before)
          /\ IsStandLookAt(injected_motion_command)
    /\ (frame.checkbox_changed /\ ~is_enabled) =>
          /\ frame.writes = <<Null>>
          /\ injected_motion_command = Null
    /\ frame.send_clicked =>
          IF is_enabled
          THEN injected_motion_command =
                  send_standing_look_at(look_at_target, camera_position)
          ELSE \A i \in 1..Len(frame.writes) : ~IsStandLookAt(frame.writes[i])

\* Send Command is clicked in the frame that disables the checkbox after a
\* Stand with LookAt had been written
C24_Witness ==
    /\ frame.checkbox_changed
    /\ frame.send_clicked
    /\ ~is_enabled
    /\ injected_motion_command = Null
    /\ look_at_mode = "Manual"
    /\ look_at_target # DEFAULT_TARGET

====
